---- MODULE Spec2Model ----
(***************************************************************************)
(* GuessWhoServer (src/main.go): the lobby registry, the per-connection    *)
(* inbound loop (handleWebSocket) with its three handlers, and the         *)
(* per-connection outbound loop (writer).                                  *)
(*                                                                         *)
(* Every connection s runs two goroutines: the inbound loop, whose         *)
(* position is pc[s], and the writer, whose position is wpc[s].  The       *)
(* labels of pc are the source lines the goroutine is about to execute     *)
(* (cl = handleCreateLobby/createLobby, jl = handleJoinLobby/joinLobby,    *)
(* pq = handlerPlayerQuit, c = connection set-up; "next" is the end of the  *)
(* loop body, "closed" the loop left on a read error, "panicked" the        *)
(* goroutine unwound by a nil dereference, "aborted" the process killed by *)
(* the runtime).  Steps that touch only goroutine-local data are merged    *)
(* into the next step that touches shared data.                            *)
(***************************************************************************)
EXTENDS Integers, Sequences, FiniteSets, TLC

(***************************************************************************)
(* Bounds of the model.                                                    *)
(***************************************************************************)
\* number of connections that may be opened
NumSessions == 2
\* total number of inbound frames read over all connections
MaxFrames == 3
\* total number of transport failures (a read error, a write error on an
\* open connection) the peers cause
MaxFaults == 1
\* capacity of a session's SendChan; the source uses 256 (main.go:123), the
\* model a small value so that a full channel is reachable
SendChanCap == 2

Sessions == 1..NumSessions

(***************************************************************************)
(* Inputs.                                                                 *)
(***************************************************************************)
\* values uuid.New().String()[:6] may return, and codes a client may send
LobbyCodes == {"c1", "c2"}

\* the player objects a client may put in a payload
PayloadPlayers == { [Nickname |-> "ann", AvatarIdx |-> 1] }

ZeroPayloadPlayer == [Nickname |-> "", AvatarIdx |-> 0]

\* A frame is what conn.ReadMessage returned, described by what the two
\* json.Unmarshal calls make of it:
\*   valid  - the envelope unmarshals into WsMessage (main.go:140)
\*   type   - msg.Type; "Other" is any string that is not a client type
\*   shape  - the payload: "bad" does not unmarshal into Payload (absent,
\*            not an object), "noPlayer" unmarshals with Player = nil,
\*            "noLobby" with Player set and Lobby = nil, "ok" with both
\*   player, lobbyID - payload.Player's fields and payload.Lobby.ID
Frame(valid, type, shape, player, lobbyID) ==
  [valid |-> valid, type |-> type, shape |-> shape, player |-> player,
   lobbyID |-> lobbyID]

NoFrame == Frame(FALSE, "", "none", ZeroPayloadPlayer, "")

Frames ==
  { Frame(FALSE, "", "bad", ZeroPayloadPlayer, ""),
    Frame(TRUE, "Other", "bad", ZeroPayloadPlayer, ""),
    Frame(TRUE, "PlayerQuit", "bad", ZeroPayloadPlayer, "") }
  \cup { Frame(TRUE, t, sh, ZeroPayloadPlayer, "") :
           t \in {"CreateLobby", "JoinLobby"}, sh \in {"bad", "noPlayer"} }
  \cup { Frame(TRUE, "CreateLobby", "ok", p, "") : p \in PayloadPlayers }
  \cup { Frame(TRUE, "JoinLobby", "noLobby", p, "") : p \in PayloadPlayers }
  \cup { Frame(TRUE, "JoinLobby", "ok", p, c) :
           p \in PayloadPlayers, c \in LobbyCodes }

(***************************************************************************)
(* State.                                                                  *)
(***************************************************************************)
VARIABLES
  pc,         \* position of each connection's inbound goroutine
  wpc,        \* position of each connection's writer goroutine
  frame,      \* the frame the inbound loop is handling (message, msg)
  nframes,    \* number of frames read so far, over all connections
  Players,    \* server.Players: the ids registered in the session map
  Lobbies,    \* server.Lobbies: code -> lobby object (0: no entry)
  heap,       \* the Lobby objects allocated so far
  mu,         \* server.mu: the session holding it, 0 when free
  lmu,        \* Lobby.mu of each object: the session holding it, or 0
  Nickname,   \* Player.Nickname of each session
  AvatarIdx,  \* Player.AvatarIdx of each session
  IsHost,     \* Player.IsHost of each session
  SendChan,   \* Player.SendChan: the buffered channel's content
  lobby,      \* handler local: the *Lobby returned by createLobby/joinLobby
  err,        \* handler local: the error joinLobby returned (NoErr: nil)
  msg,        \* handler local: the bytes generated for sending
  idx,        \* handler local: position of the range loop of main.go:203
  seqno,      \* history: for each buffered message, its rank among the
              \* messages ever sent on that SendChan
  nenq,       \* history: number of messages ever sent on each SendChan
  written,    \* history: number of messages WriteMessage has written
  wire,       \* history: rank of the message WriteMessage wrote last
  sent,       \* history: the sends of the handler of the current frame
  faults      \* number of transport failures so far on open connections

vars == <<pc, wpc, frame, nframes, Players, Lobbies, heap, mu, lmu,
          Nickname, AvatarIdx, IsHost, SendChan, lobby, err, msg, idx, seqno,
          nenq, written, wire, sent, faults>>

(***************************************************************************)
(* Messages (main.go:222-300).  json.Marshal with omitempty leaves out     *)
(* exactly the zero-valued fields, so a marshalled object is determined by *)
(* its field values; an absent object is the zero record.                  *)
(***************************************************************************)
NoPlayerJSON == [ID |-> 0, Nickname |-> "", AvatarIdx |-> 0, IsHost |-> FALSE]

NoLobbyJSON == [ID |-> "", Players |-> <<>>]

\* an error value: which fmt.Errorf of joinLobby made it, and for which id
Errorf(kind, lobbyID) == [kind |-> kind, lobbyID |-> lobbyID]

NoErr == Errorf("", "")

WsMessage(type, lobbyJSON, playerJSON, message) ==
  [type |-> type, lobby |-> lobbyJSON, player |-> playerJSON,
   message |-> message]

NoMsg == WsMessage("", NoLobbyJSON, NoPlayerJSON, NoErr)

\* json.Marshal of a *Player: ID, Nickname, AvatarIdx, IsHost (Conn and
\* SendChan are tagged json:"-")
PlayerJSON(t) ==
  [ID |-> t, Nickname |-> Nickname[t], AvatarIdx |-> AvatarIdx[t],
   IsHost |-> IsHost[t]]

\* main.go:170, 192: the IsHost a handler assigns for frame f
StampHost(f) == f.type = "CreateLobby"

\* The marshal of player t done by goroutine s takes no lock.  While t's own
\* handler is about to assign t's fields (main.go:170-172, 192-194) the reads
\* race with those writes: the marshal reads Nickname, AvatarIdx, IsHost in
\* this order and the handler writes them in the opposite order, so besides
\* the old and the new field values it may get the new IsHost alone, the new
\* IsHost and AvatarIdx, and a torn two-word Nickname.
Stamping(s, t) == t # s /\ pc[t] \in {"cl170", "jl192"}

PlayerViews(s, t) ==
  LET old == PlayerJSON(t)
      f == frame[t]
      host == [old EXCEPT !.IsHost = StampHost(f)]
      both == [host EXCEPT !.AvatarIdx = f.player.AvatarIdx]
  IN  IF ~Stamping(s, t) THEN {old}
      ELSE IF f.shape = "noPlayer" THEN {old, host}
      ELSE {old, host, both} \cup
           (IF f.player.Nickname # Nickname[t]
              THEN {[both EXCEPT !.Nickname = "<torn>"]}
              ELSE {})

\* json.Marshal of a *Lobby by goroutine s: the views of lobby l it may get
LobbyViews(s, l) ==
  LET ps == heap[l].Players
  IN  { [ID |-> heap[l].ID, Players |-> f] :
          f \in { g \in [1..Len(ps) -> UNION {PlayerViews(s, ps[i]) : i \in 1..Len(ps)}] :
                    \A i \in 1..Len(ps) : g[i] \in PlayerViews(s, ps[i]) } }

generateConnectedMsg(t) ==
  WsMessage("Connected", NoLobbyJSON, PlayerJSON(t), NoErr)

generateLobbyCreatedMsg(lobbyJSON) ==
  WsMessage("LobbyCreated", lobbyJSON, NoPlayerJSON, NoErr)

generateLobbyJoinedMsg(lobbyJSON) ==
  WsMessage("LobbyJoined", lobbyJSON, NoPlayerJSON, NoErr)

errorResponse(message) ==
  WsMessage("Error", NoLobbyJSON, NoPlayerJSON, message)

(***************************************************************************)
(* Init: the server after construction (main.go:46-49), no connection.     *)
(***************************************************************************)
Init ==
  /\ pc = [s \in Sessions |-> "idle"]
  /\ wpc = [s \in Sessions |-> "off"]
  /\ frame = [s \in Sessions |-> NoFrame]
  /\ nframes = 0
  /\ Players = {}
  /\ Lobbies = [c \in LobbyCodes |-> 0]
  /\ heap = <<>>
  /\ mu = 0
  /\ lmu = <<>>
  /\ Nickname = [s \in Sessions |-> ""]
  /\ AvatarIdx = [s \in Sessions |-> 0]
  /\ IsHost = [s \in Sessions |-> FALSE]
  /\ SendChan = [s \in Sessions |-> <<>>]
  /\ lobby = [s \in Sessions |-> 0]
  /\ err = [s \in Sessions |-> NoErr]
  /\ msg = [s \in Sessions |-> NoMsg]
  /\ idx = [s \in Sessions |-> 0]
  /\ seqno = [s \in Sessions |-> <<>>]
  /\ nenq = [s \in Sessions |-> 0]
  /\ written = [s \in Sessions |-> 0]
  /\ wire = [s \in Sessions |-> 0]
  /\ sent = [s \in Sessions |-> <<>>]
  /\ faults = 0

(***************************************************************************)
(* The buffered channel Player.SendChan (make(chan []byte, 256)).          *)
(***************************************************************************)
\* a send proceeds only while the buffer has room; otherwise it blocks
CanSend(t) == Len(SendChan[t]) < SendChanCap

\* ch <- m puts m behind everything already buffered
ChanSend(q, m) == Append(q, m)

\* variant of ChanRecv: the receive takes the newest buffered value
ChanRecv_Newest(q) == q[Len(q)]

\* the value a receive (range ch) takes, and what stays buffered
ChanRecv(q) == Head(q)

ChanRest(q) == Tail(q)

\* goroutine s executes t.SendChan <- m
Send(s, t, m) ==
  /\ CanSend(t)
  /\ SendChan' = [SendChan EXCEPT ![t] = ChanSend(@, m)]
  /\ seqno' = [seqno EXCEPT ![t] = ChanSend(@, nenq[t] + 1)]
  /\ nenq' = [nenq EXCEPT ![t] = @ + 1]
  /\ sent' = [sent EXCEPT ![s] = Append(@, [to |-> t, msg |-> m])]

(***************************************************************************)
(* Unsynchronised accesses.  server.Players is written at main.go:126 and  *)
(* main.go:209 without server.mu.  When another goroutine is about to      *)
(* write the same map the two writes may overlap; the Go runtime then      *)
(* either aborts the process ("concurrent map writes") or lets both land.  *)
(***************************************************************************)
PlayersRace(s) ==
  \E t \in Sessions \ {s} : pc[t] \in {"c126", "pq209"}

\* generateLobbyCreatedMsg reads lobby.Players without a lock; when a joiner
\* is about to append to the same lobby (main.go:104) the read of the slice
\* header may be torn and fault
SliceRace(s, l) ==
  \E t \in Sessions \ {s} : pc[t] = "jl104" /\ lobby[t] = l

\* the runtime aborts the process: every goroutine is gone
Abort ==
  /\ pc' = [s \in Sessions |-> "aborted"]
  /\ wpc' = [s \in Sessions |-> "aborted"]
  /\ UNCHANGED <<frame, nframes, Players, Lobbies, heap, mu, lmu, Nickname,
                 AvatarIdx, IsHost, SendChan, lobby, err, msg, idx, seqno,
                 nenq, written, wire, sent, faults>>

(***************************************************************************)
(* handleWebSocket, connection set-up (main.go:110-130).                   *)
(***************************************************************************)
\* main.go:111-124: the upgrade succeeded and the Player was built.  The ids
\* are fresh uuids, so connections are numbered in the order they arrive.
Upgrade(s) ==
  /\ pc[s] = "idle"
  /\ \A t \in Sessions : t < s => pc[t] # "idle"
  /\ pc' = [pc EXCEPT ![s] = "c126"]
  /\ UNCHANGED <<wpc, frame, nframes, Players, Lobbies, heap, mu, lmu,
                 Nickname, AvatarIdx, IsHost, SendChan, lobby, err, msg,
                 idx, seqno, nenq, written, wire, sent, faults>>

\* main.go:126: server.Players[player.ID] = player
Register(s) ==
  /\ pc[s] = "c126"
  /\ \/ /\ Players' = Players \cup {s}
        /\ pc' = [pc EXCEPT ![s] = "c128"]
        /\ UNCHANGED <<wpc, frame, nframes, Lobbies, heap, mu, lmu,
                       Nickname, AvatarIdx, IsHost, SendChan, lobby, err,
                       msg, idx, seqno, nenq, written, wire, sent, faults>>
     \/ /\ PlayersRace(s)
        /\ Abort

\* variant of SendConnected: the writer is started and the loop entered
\* without the Connected message
SendConnected_Silent(s) ==
  /\ pc[s] = "c128"
  /\ wpc' = [wpc EXCEPT ![s] = "run"]
  /\ pc' = [pc EXCEPT ![s] = "next"]
  /\ UNCHANGED <<frame, nframes, Players, Lobbies, heap, mu, lmu, Nickname,
                 AvatarIdx, IsHost, SendChan, lobby, err, msg, idx, seqno,
                 nenq, written, wire, sent, faults>>

\* main.go:128-130: player.SendChan <- generateConnectedMsg(player);
\* go writer(player)
SendConnected(s) ==
  /\ pc[s] = "c128"
  /\ Send(s, s, generateConnectedMsg(s))
  /\ wpc' = [wpc EXCEPT ![s] = "run"]
  /\ pc' = [pc EXCEPT ![s] = "next"]
  /\ UNCHANGED <<frame, nframes, Players, Lobbies, heap, mu, lmu, Nickname,
                 AvatarIdx, IsHost, lobby, err, msg, idx, written, wire,
                 faults>>

(***************************************************************************)
(* handleWebSocket, the inbound loop (main.go:132-157).                    *)
(***************************************************************************)
\* variant of Dispatch: the switch lacks its default case, so that a type
\* that is none of the client types runs into the last case
Dispatch_NoDefault(f) ==
  IF ~f.valid THEN "next"
  ELSE IF f.type = "CreateLobby"
         THEN (IF f.shape = "bad" THEN "next" ELSE "cl170")
  ELSE IF f.type = "JoinLobby"
         THEN (IF f.shape = "bad" THEN "next" ELSE "jl192")
  ELSE "pq209"

\* where the loop goes with frame f: the envelope unmarshal (main.go:140),
\* the switch (main.go:147-156) and the handler's payload unmarshal
\* (main.go:163, 185); "next" is the end of the loop body
Dispatch(f) ==
  IF ~f.valid THEN "next"
  ELSE IF f.type = "CreateLobby"
         THEN (IF f.shape = "bad" THEN "next" ELSE "cl170")
  ELSE IF f.type = "JoinLobby"
         THEN (IF f.shape = "bad" THEN "next" ELSE "jl192")
  ELSE IF f.type = "PlayerQuit" THEN "pq209"
  ELSE "next"

\* main.go:133-157: one conn.ReadMessage and the dispatch of its result
ReadMessage(s) ==
  /\ pc[s] = "read"
  /\ \/ \* err != nil: break, and the deferred conn.Close() runs
        /\ faults < MaxFaults
        /\ faults' = faults + 1
        /\ pc' = [pc EXCEPT ![s] = "closed"]
        /\ UNCHANGED <<frame, nframes>>
     \/ /\ nframes < MaxFrames
        /\ nframes' = nframes + 1
        /\ \E f \in Frames :
             /\ frame' = [frame EXCEPT ![s] = f]
             /\ pc' = [pc EXCEPT ![s] = Dispatch(f)]
        /\ UNCHANGED faults
  /\ UNCHANGED <<wpc, Players, Lobbies, heap, mu, lmu, Nickname, AvatarIdx,
                 IsHost, SendChan, lobby, err, msg, idx, seqno, nenq,
                 written, wire, sent>>

\* the end of the loop body: the handler has returned (or the frame was
\* dropped with continue) and its locals are gone
NextIteration(s) ==
  /\ pc[s] = "next"
  /\ pc' = [pc EXCEPT ![s] = "read"]
  /\ frame' = [frame EXCEPT ![s] = NoFrame]
  /\ lobby' = [lobby EXCEPT ![s] = 0]
  /\ err' = [err EXCEPT ![s] = NoErr]
  /\ msg' = [msg EXCEPT ![s] = NoMsg]
  /\ idx' = [idx EXCEPT ![s] = 0]
  /\ sent' = [sent EXCEPT ![s] = <<>>]
  /\ UNCHANGED <<wpc, nframes, Players, Lobbies, heap, mu, lmu, Nickname,
                 AvatarIdx, IsHost, SendChan, seqno, nenq, written, wire,
                 faults>>

(***************************************************************************)
(* handleCreateLobby (main.go:160-180) and Server.createLobby (75-88).     *)
(***************************************************************************)
\* main.go:168-172: player.IsHost = true; player.AvatarIdx = ...;
\* player.Nickname = ....  With payload.Player = nil only IsHost is assigned:
\* the read of payloadPlayer.AvatarIdx panics, the goroutine unwinds through
\* the deferred conn.Close() and the inbound loop is gone.
CreateStamp(s) ==
  /\ pc[s] = "cl170"
  /\ IsHost' = [IsHost EXCEPT ![s] = StampHost(frame[s])]
  /\ IF frame[s].shape = "noPlayer"
       THEN /\ pc' = [pc EXCEPT ![s] = "panicked"]
            /\ UNCHANGED <<AvatarIdx, Nickname>>
       ELSE /\ AvatarIdx' = [AvatarIdx EXCEPT ![s] = frame[s].player.AvatarIdx]
            /\ Nickname' = [Nickname EXCEPT ![s] = frame[s].player.Nickname]
            /\ pc' = [pc EXCEPT ![s] = "cl83"]
  /\ UNCHANGED <<wpc, frame, nframes, Players, Lobbies, heap, mu, lmu,
                 SendChan, lobby, err, msg, idx, seqno, nenq, written,
                 wire, sent, faults>>

\* main.go:78-81: the new Lobby object; creator is history, not a field
NewLobby(lobbyID, player) ==
  [ID |-> lobbyID, Players |-> <<player>>, creator |-> player]

\* main.go:76-83: lobbyID := uuid.New().String()[:6]; lobby := &Lobby{...};
\* s.mu.Lock()
createLobbyLock(s) ==
  /\ pc[s] = "cl83"
  /\ mu = 0
  /\ mu' = s
  /\ \E lobbyID \in LobbyCodes :
       heap' = Append(heap, NewLobby(lobbyID, s))
  /\ lmu' = Append(lmu, 0)
  /\ lobby' = [lobby EXCEPT ![s] = Len(heap) + 1]
  /\ pc' = [pc EXCEPT ![s] = "cl84"]
  /\ UNCHANGED <<wpc, frame, nframes, Players, Lobbies, Nickname,
                 AvatarIdx, IsHost, SendChan, err, msg, idx, seqno, nenq,
                 written, wire, sent, faults>>

\* main.go:84: s.Lobbies[lobbyID] = lobby
MapInsert(m, lobbyID, l) == [m EXCEPT ![lobbyID] = l]

\* variant of createLobbyInsert: createLobby returns with server.mu held
createLobbyInsert_NoUnlock(s) ==
  /\ pc[s] = "cl84"
  /\ Lobbies' = MapInsert(Lobbies, heap[lobby[s]].ID, lobby[s])
  /\ pc' = [pc EXCEPT ![s] = "cl179g"]
  /\ UNCHANGED <<wpc, frame, nframes, Players, heap, mu, lmu, Nickname,
                 AvatarIdx, IsHost, SendChan, lobby, err, msg, idx, seqno,
                 nenq, written, wire, sent, faults>>

\* main.go:84-85: s.Lobbies[lobbyID] = lobby; s.mu.Unlock()
createLobbyInsert(s) ==
  /\ pc[s] = "cl84"
  /\ Lobbies' = MapInsert(Lobbies, heap[lobby[s]].ID, lobby[s])
  /\ mu' = 0
  /\ pc' = [pc EXCEPT ![s] = "cl179g"]
  /\ UNCHANGED <<wpc, frame, nframes, Players, heap, lmu, Nickname,
                 AvatarIdx, IsHost, SendChan, lobby, err, msg, idx, seqno,
                 nenq, written, wire, sent, faults>>

\* main.go:179, the argument: generateLobbyCreatedMsg(lobby)
CreateGenerate(s) ==
  /\ pc[s] = "cl179g"
  /\ \/ /\ \E v \in LobbyViews(s, lobby[s]) :
             msg' = [msg EXCEPT ![s] = generateLobbyCreatedMsg(v)]
        /\ pc' = [pc EXCEPT ![s] = "cl179s"]
        /\ UNCHANGED <<wpc, frame, nframes, Players, Lobbies, heap, mu,
                       lmu, Nickname, AvatarIdx, IsHost, SendChan, lobby,
                       err, idx, seqno, nenq, written, wire, sent, faults>>
     \/ /\ SliceRace(s, lobby[s])
        /\ Abort

\* main.go:179, the send: player.SendChan <- msg, and the return
CreateSend(s) ==
  /\ pc[s] = "cl179s"
  /\ Send(s, s, msg[s])
  /\ pc' = [pc EXCEPT ![s] = "next"]
  /\ UNCHANGED <<wpc, frame, nframes, Players, Lobbies, heap, mu, lmu,
                 Nickname, AvatarIdx, IsHost, lobby, err, msg, idx,
                 written, wire, faults>>

(***************************************************************************)
(* handleJoinLobby (main.go:182-206) and Server.joinLobby (90-108).        *)
(***************************************************************************)
\* main.go:190-196: player.IsHost = false; player.AvatarIdx = ...;
\* player.Nickname = ...; with payload.Player = nil the second assignment
\* panics, with payload.Lobby = nil the argument payload.Lobby.ID of
\* main.go:196 does
JoinStamp(s) ==
  /\ pc[s] = "jl192"
  /\ IsHost' = [IsHost EXCEPT ![s] = StampHost(frame[s])]
  /\ IF frame[s].shape = "noPlayer"
       THEN /\ pc' = [pc EXCEPT ![s] = "panicked"]
            /\ UNCHANGED <<AvatarIdx, Nickname>>
       ELSE /\ AvatarIdx' = [AvatarIdx EXCEPT ![s] = frame[s].player.AvatarIdx]
            /\ Nickname' = [Nickname EXCEPT ![s] = frame[s].player.Nickname]
            /\ pc' = [pc EXCEPT ![s] =
                        IF frame[s].shape = "noLobby" THEN "panicked"
                                                      ELSE "jl91"]
  /\ UNCHANGED <<wpc, frame, nframes, Players, Lobbies, heap, mu, lmu,
                 SendChan, lobby, err, msg, idx, seqno, nenq, written,
                 wire, sent, faults>>

\* variant of LobbyIsFull: the comparison is off by one
LobbyIsFull_OffByOne(l) == Len(heap[l].Players) > 2

\* main.go:99: len(lobby.Players) >= 2
LobbyIsFull(l) == Len(heap[l].Players) >= 2

\* main.go:91-101: s.mu.Lock(); defer s.mu.Unlock(); the lookup and the two
\* checks.  An error return runs the deferred Unlock at once; otherwise the
\* goroutine goes on to main.go:103 with server.mu held.
joinLobbyLookup(s) ==
  /\ pc[s] = "jl91"
  /\ mu = 0
  /\ LET lobbyID == frame[s].lobbyID
         l == Lobbies[lobbyID]
     IN  IF l = 0
           THEN /\ err' = [err EXCEPT ![s] = Errorf("not found", lobbyID)]
                /\ pc' = [pc EXCEPT ![s] = "jl198"]
                /\ UNCHANGED <<lobby, mu>>
         ELSE IF LobbyIsFull(l)
           THEN /\ err' = [err EXCEPT ![s] = Errorf("already full", lobbyID)]
                /\ pc' = [pc EXCEPT ![s] = "jl198"]
                /\ UNCHANGED <<lobby, mu>>
         ELSE   /\ lobby' = [lobby EXCEPT ![s] = l]
                /\ mu' = s
                /\ pc' = [pc EXCEPT ![s] = "jl103"]
                /\ UNCHANGED err
  /\ UNCHANGED <<wpc, frame, nframes, Players, Lobbies, heap, lmu,
                 Nickname, AvatarIdx, IsHost, SendChan, msg, idx, seqno,
                 nenq, written, wire, sent, faults>>

\* main.go:103: lobby.mu.Lock()
joinLobbyLockLobby(s) ==
  /\ pc[s] = "jl103"
  /\ lmu[lobby[s]] = 0
  /\ lmu' = [lmu EXCEPT ![lobby[s]] = s]
  /\ pc' = [pc EXCEPT ![s] = "jl104"]
  /\ UNCHANGED <<wpc, frame, nframes, Players, Lobbies, heap, mu, Nickname,
                 AvatarIdx, IsHost, SendChan, lobby, err, msg, idx, seqno,
                 nenq, written, wire, sent, faults>>

\* main.go:104-107: lobby.Players = append(lobby.Players, player);
\* lobby.mu.Unlock(); return lobby, nil with the deferred s.mu.Unlock()
joinLobbyAppend(s) ==
  /\ pc[s] = "jl104"
  /\ heap' = [heap EXCEPT ![lobby[s]].Players = Append(@, s)]
  /\ lmu' = [lmu EXCEPT ![lobby[s]] = 0]
  /\ mu' = 0
  /\ pc' = [pc EXCEPT ![s] = "jl202"]
  /\ UNCHANGED <<wpc, frame, nframes, Players, Lobbies, Nickname,
                 AvatarIdx, IsHost, SendChan, lobby, err, msg, idx, seqno,
                 nenq, written, wire, sent, faults>>

\* variant of JoinSendError: the error of a join on an existing lobby goes
\* to that lobby's first member
JoinSendError_ToHost(s) ==
  /\ pc[s] = "jl198"
  /\ LET l == Lobbies[frame[s].lobbyID]
     IN  Send(s, IF l = 0 THEN s ELSE heap[l].Players[1],
              errorResponse(err[s]))
  /\ pc' = [pc EXCEPT ![s] = "next"]
  /\ UNCHANGED <<wpc, frame, nframes, Players, Lobbies, heap, mu, lmu,
                 Nickname, AvatarIdx, IsHost, lobby, err, msg, idx,
                 written, wire, faults>>

\* main.go:198-199: player.SendChan <- errorResponse(err.Error()); return
JoinSendError(s) ==
  /\ pc[s] = "jl198"
  /\ Send(s, s, errorResponse(err[s]))
  /\ pc' = [pc EXCEPT ![s] = "next"]
  /\ UNCHANGED <<wpc, frame, nframes, Players, Lobbies, heap, mu, lmu,
                 Nickname, AvatarIdx, IsHost, lobby, err, msg, idx,
                 written, wire, faults>>

\* main.go:202: msg := generateLobbyJoinedMsg(lobby).  The range expression
\* of main.go:203 is evaluated here as well: the lobby is full from now on,
\* so lobby.Players is never assigned again.
JoinGenerate(s) ==
  /\ pc[s] = "jl202"
  /\ \E v \in LobbyViews(s, lobby[s]) :
       msg' = [msg EXCEPT ![s] = generateLobbyJoinedMsg(v)]
  /\ idx' = [idx EXCEPT ![s] = 1]
  /\ pc' = [pc EXCEPT ![s] = "jl204"]
  /\ UNCHANGED <<wpc, frame, nframes, Players, Lobbies, heap, mu, lmu,
                 Nickname, AvatarIdx, IsHost, SendChan, lobby, err, seqno,
                 nenq, written, wire, sent, faults>>

\* variant of BroadcastTarget: every iteration sends to the joiner
BroadcastTarget_Last(l, i) == heap[l].Players[Len(heap[l].Players)]

\* the session the range loop of main.go:203 sends to in iteration i
BroadcastTarget(l, i) == heap[l].Players[i]

\* main.go:203-205: one iteration of the loop: lobbyPlayer.SendChan <- msg
JoinBroadcast(s) ==
  /\ pc[s] = "jl204"
  /\ Send(s, BroadcastTarget(lobby[s], idx[s]), msg[s])
  /\ IF idx[s] < Len(heap[lobby[s]].Players)
       THEN /\ idx' = [idx EXCEPT ![s] = @ + 1]
            /\ UNCHANGED pc
       ELSE /\ pc' = [pc EXCEPT ![s] = "next"]
            /\ UNCHANGED idx
  /\ UNCHANGED <<wpc, frame, nframes, Players, Lobbies, heap, mu, lmu,
                 Nickname, AvatarIdx, IsHost, lobby, err, msg, written,
                 wire, faults>>

(***************************************************************************)
(* handlerPlayerQuit (main.go:208-210).                                    *)
(***************************************************************************)
\* variant of handlerPlayerQuit: the session is taken out of the member
\* lists as well
handlerPlayerQuit_LeaveLobbies(s) ==
  /\ pc[s] = "pq209"
  /\ \/ /\ Players' = Players \ {s}
        /\ heap' = [l \in DOMAIN heap |->
                      [heap[l] EXCEPT !.Players =
                         SelectSeq(@, LAMBDA p : p # s)]]
        /\ pc' = [pc EXCEPT ![s] = "next"]
        /\ UNCHANGED <<wpc, frame, nframes, Lobbies, mu, lmu, Nickname,
                       AvatarIdx, IsHost, SendChan, lobby, err, msg, idx,
                       seqno, nenq, written, wire, sent, faults>>
     \/ /\ PlayersRace(s)
        /\ Abort

\* main.go:209: delete(server.Players, player.ID)
handlerPlayerQuit(s) ==
  /\ pc[s] = "pq209"
  /\ \/ /\ Players' = Players \ {s}
        /\ pc' = [pc EXCEPT ![s] = "next"]
        /\ UNCHANGED <<wpc, frame, nframes, Lobbies, heap, mu, lmu,
                       Nickname, AvatarIdx, IsHost, SendChan, lobby, err,
                       msg, idx, seqno, nenq, written, wire, sent, faults>>
     \/ /\ PlayersRace(s)
        /\ Abort

(***************************************************************************)
(* writer (main.go:212-220).                                               *)
(***************************************************************************)
\* the connection is closed once the inbound loop has left handleWebSocket
ConnClosed(s) == pc[s] \in {"closed", "panicked", "aborted"}

\* variant of writer: a failed write on an open connection closes the
\* connection, so that the inbound loop ends as well
writer_ClosesConn(s) ==
  /\ wpc[s] = "run"
  /\ SendChan[s] # <<>>
  /\ SendChan' = [SendChan EXCEPT ![s] = ChanRest(@)]
  /\ seqno' = [seqno EXCEPT ![s] = ChanRest(@)]
  /\ \/ /\ ~ConnClosed(s)
        /\ wire' = [wire EXCEPT ![s] = ChanRecv(seqno[s])]
        /\ written' = [written EXCEPT ![s] = @ + 1]
        /\ UNCHANGED <<wpc, faults, pc>>
     \/ /\ ConnClosed(s)
        /\ wpc' = [wpc EXCEPT ![s] = "done"]
        /\ UNCHANGED <<wire, written, faults, pc>>
     \/ /\ ~ConnClosed(s)
        /\ faults < MaxFaults
        /\ faults' = faults + 1
        /\ wpc' = [wpc EXCEPT ![s] = "done"]
        /\ pc' = [pc EXCEPT ![s] = "closed"]
        /\ UNCHANGED <<wire, written>>
  /\ UNCHANGED <<frame, nframes, Players, Lobbies, heap, mu, lmu, Nickname,
                 AvatarIdx, IsHost, lobby, err, msg, idx, nenq, sent>>

\* one iteration: receive the next message and write it; WriteMessage fails
\* on a closed connection and may fail on an open one (the peer is gone),
\* and a failure ends the loop
writer(s) ==
  /\ wpc[s] = "run"
  /\ SendChan[s] # <<>>
  /\ SendChan' = [SendChan EXCEPT ![s] = ChanRest(@)]
  /\ seqno' = [seqno EXCEPT ![s] = ChanRest(@)]
  /\ \/ /\ ~ConnClosed(s)
        /\ wire' = [wire EXCEPT ![s] = ChanRecv(seqno[s])]
        /\ written' = [written EXCEPT ![s] = @ + 1]
        /\ UNCHANGED <<wpc, faults>>
     \/ /\ ConnClosed(s)
        /\ wpc' = [wpc EXCEPT ![s] = "done"]
        /\ UNCHANGED <<wire, written, faults>>
     \/ /\ ~ConnClosed(s)
        /\ faults < MaxFaults
        /\ faults' = faults + 1
        /\ wpc' = [wpc EXCEPT ![s] = "done"]
        /\ UNCHANGED <<wire, written>>
  /\ UNCHANGED <<pc, frame, nframes, Players, Lobbies, heap, mu, lmu,
                 Nickname, AvatarIdx, IsHost, lobby, err, msg, idx, nenq,
                 sent>>

(***************************************************************************)
(* The system.                                                             *)
(***************************************************************************)
Next ==
  \E s \in Sessions :
       \/ Upgrade(s)
       \/ Register(s)
       \/ SendConnected(s)
       \/ ReadMessage(s)
       \/ NextIteration(s)
       \/ CreateStamp(s)
       \/ createLobbyLock(s)
       \/ createLobbyInsert(s)
       \/ CreateGenerate(s)
       \/ CreateSend(s)
       \/ JoinStamp(s)
       \/ joinLobbyLookup(s)
       \/ joinLobbyLockLobby(s)
       \/ joinLobbyAppend(s)
       \/ JoinSendError(s)
       \/ JoinGenerate(s)
       \/ JoinBroadcast(s)
       \/ handlerPlayerQuit(s)
       \/ writer(s)

Spec == Init /\ [][Next]_vars

\* The lobby operations alone: the clients send only well-formed CreateLobby
\* and JoinLobby frames and no connection fails, so that no handler panics,
\* nobody quits and every writer keeps running.
LobbyFrame(f) ==
  f = NoFrame \/ (f.type \in {"CreateLobby", "JoinLobby"} /\ f.shape = "ok")

LobbyRead(s) == ReadMessage(s) /\ LobbyFrame(frame'[s]) /\ faults' = faults

LobbyWrite(s) == writer(s) /\ faults' = faults

LobbyNext ==
  \E s \in Sessions :
       \/ Upgrade(s)
       \/ Register(s)
       \/ SendConnected(s)
       \/ LobbyRead(s)
       \/ NextIteration(s)
       \/ CreateStamp(s)
       \/ createLobbyLock(s)
       \/ createLobbyInsert(s)
       \/ CreateGenerate(s)
       \/ CreateSend(s)
       \/ JoinStamp(s)
       \/ joinLobbyLookup(s)
       \/ joinLobbyLockLobby(s)
       \/ joinLobbyAppend(s)
       \/ JoinSendError(s)
       \/ JoinGenerate(s)
       \/ JoinBroadcast(s)
       \/ LobbyWrite(s)

\* Scheduling.  The Go scheduler runs every runnable goroutine and a blocked
\* channel operation or Lock proceeds once it is possible for good, so every
\* step of a goroutine that stays possible is taken.  What the clients do
\* (opening a connection, sending a frame, dropping the connection) is not
\* forced.
Fairness ==
  \A s \in Sessions :
    /\ WF_vars(Register(s))
    /\ WF_vars(SendConnected(s))
    /\ WF_vars(NextIteration(s))
    /\ WF_vars(CreateStamp(s))
    /\ WF_vars(createLobbyLock(s))
    /\ WF_vars(createLobbyInsert(s))
    /\ WF_vars(CreateGenerate(s))
    /\ WF_vars(CreateSend(s))
    /\ WF_vars(JoinStamp(s))
    /\ WF_vars(joinLobbyLookup(s))
    /\ WF_vars(joinLobbyLockLobby(s))
    /\ WF_vars(joinLobbyAppend(s))
    /\ WF_vars(JoinSendError(s))
    /\ WF_vars(JoinGenerate(s))
    /\ WF_vars(JoinBroadcast(s))
    /\ WF_vars(handlerPlayerQuit(s))
    /\ WF_vars(writer(s))

\* sync.Mutex hands the lock to a waiter that has waited long (starvation
\* mode): a Lock that is possible again and again succeeds
LockFairness ==
  \A s \in Sessions :
    /\ SF_vars(createLobbyLock(s))
    /\ SF_vars(joinLobbyLookup(s))
    /\ SF_vars(joinLobbyLockLobby(s))

FairSpec == Spec /\ Fairness /\ LockFairness

LobbySpec == Init /\ [][LobbyNext]_vars /\ Fairness

(***************************************************************************)
(* Properties.                                                             *)
(***************************************************************************)
Members(l) == heap[l].Players

\* the inbound goroutine of session s took a step of its own (the runtime
\* killing the process on other goroutines' map writes is not one)
Stepped(s) == pc'[s] # pc[s] /\ pc'[s] # "aborted"

\* the JoinLobby handler of s has returned from joinLobby without an error
JoinSucceeded(s) ==
  frame[s].type = "JoinLobby" /\ lobby[s] # 0 /\ err[s] = NoErr

\* the JoinLobby handler of s has got an error from joinLobby
JoinFailed(s) == frame[s].type = "JoinLobby" /\ err[s] # NoErr

\* C1: every lobby has 1 or 2 members: a lobby is created with exactly one
\* member, the member count never decreases, and a joinLobby that finds a
\* lobby with 2 members returns "already full" and appends nothing.
C1_Step ==
  /\ \A l \in DOMAIN heap' : Len(heap'[l].Players) \in {1, 2}
  /\ \A l \in DOMAIN heap : Len(heap'[l].Players) >= Len(heap[l].Players)
  /\ \A l \in DOMAIN heap' \ DOMAIN heap : Len(heap'[l].Players) = 1
  /\ \A s \in Sessions :
       /\ pc[s] = "jl91"
       /\ Stepped(s)
       /\ Lobbies[frame[s].lobbyID] # 0
       /\ Len(Members(Lobbies[frame[s].lobbyID])) = 2
       => /\ pc'[s] = "jl198"
          /\ err'[s] = Errorf("already full", frame[s].lobbyID)
          /\ heap' = heap

C1_MemberCount == [][C1_Step]_vars

\* a JoinLobby on a full lobby has been refused
C1_Witness ==
  \E s \in Sessions :
    /\ pc[s] = "next"
    /\ err[s].kind = "already full"
    /\ Len(Members(Lobbies[frame[s].lobbyID])) = 2

\* C2: the code assigned to a newly created lobby is not the code of a
\* lobby in the registry, so no createLobby replaces an entry of the registry.
C2_UniqueCode ==
  [][\A c \in LobbyCodes : Lobbies[c] # 0 => Lobbies'[c] = Lobbies[c]]_vars

\* C3: in every lobby the first member is the creator and has IsHost = TRUE,
\* and the second member, if any, has IsHost = FALSE.
C3_HostFirst ==
  \A l \in DOMAIN heap :
    /\ Members(l)[1] = heap[l].creator
    /\ IsHost[Members(l)[1]]
    /\ Len(Members(l)) >= 2 => ~IsHost[Members(l)[2]]

\* C4: a successful JoinLobby sends exactly two LobbyJoined messages, the
\* i-th to the i-th member of the lobby, none to anyone else, and the two
\* are the same message, carrying the lobby's code and its two members.
C4_Sends(s, n) ==
  /\ Len(Members(lobby[s])) = 2
  /\ Len(sent[s]) = n
  /\ \A i \in 1..n :
       /\ sent[s][i].to = Members(lobby[s])[i]
       /\ sent[s][i].msg = sent[s][1].msg
       /\ sent[s][i].msg.type = "LobbyJoined"
       /\ sent[s][i].msg.lobby.ID = heap[lobby[s]].ID
       /\ Len(sent[s][i].msg.lobby.Players) = 2
       /\ \A k \in 1..2 :
            sent[s][i].msg.lobby.Players[k].ID = Members(lobby[s])[k]

C4_JoinBroadcast ==
  \A s \in Sessions :
    /\ pc[s] = "jl204" => C4_Sends(s, idx[s] - 1)
    /\ pc[s] = "next" /\ JoinSucceeded(s) => C4_Sends(s, 2)

\* a joiner other than the host has finished its broadcast
C4_Witness ==
  \E s \in Sessions :
    /\ pc[s] = "next"
    /\ JoinSucceeded(s)
    /\ Members(lobby[s])[1] # s
    /\ Len(sent[s]) = 2

\* C5: a failed JoinLobby (unknown code or full lobby) sends exactly one
\* Error message, to the joiner, and nothing to anyone else.
C5_JoinError ==
  \A s \in Sessions :
    /\ JoinFailed(s) => err[s].kind \in {"not found", "already full"}
    /\ pc[s] = "jl198" => JoinFailed(s) /\ sent[s] = <<>>
    /\ pc[s] = "next" /\ JoinFailed(s)
         => sent[s] = <<[to |-> s, msg |-> errorResponse(err[s])]>>

\* a join on a full lobby has been answered while the lobby's other member
\* is connected
C5_Witness ==
  \E s \in Sessions :
    /\ pc[s] = "next"
    /\ err[s].kind = "already full"
    /\ Len(sent[s]) = 1
    /\ \E t \in Sessions \ {s} :
         t = Members(Lobbies[frame[s].lobbyID])[1] /\ wpc[t] # "off"

\* the lobbies with their members' attributes, as a client sees them
LobbyState ==
  [l \in DOMAIN heap |->
     [ID |-> heap[l].ID,
      Players |-> [i \in DOMAIN heap[l].Players |->
                     PlayerJSON(heap[l].Players[i])]]]

\* C6: the handling of a JoinLobby whose code is not in the registry returns
\* "not found" and changes no lobby: neither the registry, nor a member list,
\* nor the nickname, avatar or isHost of a member.
C6_Step(s) ==
  /\ pc[s] \in {"jl192", "jl91", "jl198"}
  /\ Stepped(s)
  /\ frame[s].shape = "ok"
  /\ Lobbies[frame[s].lobbyID] = 0
  => /\ Lobbies' = Lobbies
     /\ LobbyState' = LobbyState
     /\ pc[s] = "jl91" => err'[s] = Errorf("not found", frame[s].lobbyID)

C6_NotFoundNoChange == [][\A s \in Sessions : C6_Step(s)]_vars

\* C7: a CreateLobby sends exactly one LobbyCreated, to the creator, and the
\* lobby in it has the creator as its single member.
C7_LobbyCreated ==
  \A s \in Sessions :
    pc[s] = "next" /\ frame[s].type = "CreateLobby" /\ frame[s].shape # "bad"
      => /\ Len(sent[s]) = 1
         /\ sent[s][1].to = s
         /\ sent[s][1].msg.type = "LobbyCreated"
         /\ Len(sent[s][1].msg.lobby.Players) = 1
         /\ sent[s][1].msg.lobby.Players[1].ID = s

\* the envelope does not unmarshal, or its type is none of the client types
EnvelopeDropped(f) ==
  f # NoFrame /\ (~f.valid \/ f.type \notin {"CreateLobby", "JoinLobby", "PlayerQuit"})

\* C8: a frame that is no valid envelope or has an unknown type sends no
\* message, changes neither the registry nor a lobby nor a session attribute,
\* and the inbound loop goes on to its next ReadMessage.
C8_Step(s) ==
  /\ Stepped(s) /\ pc[s] = "read" /\ EnvelopeDropped(frame'[s])
       => /\ pc'[s] = "next"
          /\ UNCHANGED <<Players, Lobbies, heap, Nickname, AvatarIdx, IsHost,
                         SendChan, nenq, sent>>
  /\ Stepped(s) /\ pc[s] = "next" /\ EnvelopeDropped(frame[s])
       => /\ pc'[s] = "read"
          /\ sent[s] = <<>>
          /\ UNCHANGED <<Players, Lobbies, heap, Nickname, AvatarIdx, IsHost,
                         SendChan, nenq>>

C8_EnvelopeDropped == [][\A s \in Sessions : C8_Step(s)]_vars

\* a session is back at ReadMessage after such a frame was its second frame
C8_Witness ==
  \E s \in Sessions :
    /\ pc[s] = "next"
    /\ EnvelopeDropped(frame[s])
    /\ nframes >= 2
    /\ nenq[s] >= 2

\* the payload has not the shape its type expects
MisShaped(f) ==
  /\ f.valid
  /\ \/ f.type = "CreateLobby" /\ f.shape \in {"bad", "noPlayer"}
     \/ f.type = "JoinLobby" /\ f.shape \in {"bad", "noPlayer", "noLobby"}

\* C9: a CreateLobby or JoinLobby frame with a mis-shaped payload is
\* dropped: its handling never ends the inbound loop.
C9_PayloadDropped ==
  \A s \in Sessions : MisShaped(frame[s]) => pc[s] # "panicked"

\* C10: the messages written to a connection are, in order, the first
\* messages sent on its SendChan: the k-th write writes the message of rank
\* k, and the buffer holds the ranks not yet received, in order.
C10_Step(s) ==
  /\ Len(seqno'[s]) = Len(SendChan'[s])
  /\ \A i \in 1..Len(seqno'[s]) :
       seqno'[s][i] = nenq'[s] - Len(seqno'[s]) + i
  /\ written'[s] # written[s]
       => written'[s] = written[s] + 1 /\ wire'[s] = written'[s]
  /\ wire'[s] # wire[s] => written'[s] # written[s]

C10_Fifo == [][\A s \in Sessions : C10_Step(s)]_vars

\* a connection has written three messages, the third sent by another
\* session's handler
C10_Witness ==
  \E s \in Sessions :
    /\ written[s] = 3
    /\ wire[s] = 3
    /\ \E t \in Sessions \ {s} :
         pc[t] = "next" /\ JoinSucceeded(t) /\ Members(lobby[t])[1] = s

\* C11: a connection's session is in server.Players when its Connected
\* message is sent; the first message ever sent on a session's SendChan is
\* its Connected message, sent by its own set-up, and no later send on that
\* SendChan is a Connected message.
C11_Step ==
  /\ \A s \in Sessions : pc[s] = "c128" => s \in Players
  /\ \A t \in Sessions :
       nenq'[t] # nenq[t] =>
         LET m == SendChan'[t][Len(SendChan'[t])]
         IN  /\ nenq'[t] = nenq[t] + 1
             /\ (m.type = "Connected") <=> (nenq[t] = 0)
             /\ nenq[t] = 0 => /\ pc[t] = "c128"
                               /\ pc'[t] = "next"
                               /\ m = generateConnectedMsg(t)

C11_ConnectedFirst == [][C11_Step]_vars

\* a lobby's creator has been sent Connected, LobbyCreated and another
\* session's LobbyJoined
C11_Witness ==
  \E t \in Sessions :
    /\ nenq[t] = 3
    /\ t \in Players
    /\ \E s \in Sessions \ {t} :
         pc[s] = "next" /\ JoinSucceeded(s) /\ Members(lobby[s])[1] = t

\* C12: the handling of PlayerQuit deletes the sender from server.Players
\* and changes nothing else: no SendChan, not the lobby registry, no member
\* list (the sender stays a member of its lobbies) and no attribute.
C12_Step(s) ==
  pc[s] = "pq209" /\ Stepped(s)
    => /\ Players' = Players \ {s}
       /\ pc'[s] = "next"
       /\ sent'[s] = <<>>
       /\ UNCHANGED <<wpc, Lobbies, heap, mu, lmu, Nickname, AvatarIdx,
                      IsHost, SendChan, seqno, nenq, written, wire>>

C12_QuitOnlyDeregisters == [][\A s \in Sessions : C12_Step(s)]_vars

\* the second member of a lobby has quit and is still its second member
C12_Witness ==
  \E s \in Sessions :
    /\ pc[s] = "next"
    /\ frame[s].type = "PlayerQuit"
    /\ s \notin Players
    /\ \E l \in DOMAIN heap :
         Len(Members(l)) = 2 /\ Members(l)[2] = s /\ Members(l)[1] # s


\* C13: no two goroutines are at an access of server.Players at the same
\* time with one of them writing (the accesses of main.go:126 and 209 are
\* writes).
C13_MapsLocked ==
  \A s \in Sessions : pc[s] \in {"c126", "pq209"} => ~PlayersRace(s)

\* C14: no goroutine holds server.mu and a Lobby.mu at the same time, and
\* the append of main.go:104 is done without server.mu.
C14_LockOrder ==
  \A s \in Sessions :
    /\ mu = s => \A l \in DOMAIN lmu : lmu[l] # s
    /\ pc[s] = "jl104" => mu # s

\* the session on whose SendChan goroutine s is about to send, 0 if s is
\* not at a send
SendTarget(s) ==
  IF pc[s] \in {"c128", "cl179s", "jl198"} THEN s
  ELSE IF pc[s] = "jl204" THEN BroadcastTarget(lobby[s], idx[s])
  ELSE 0

\* C15: a SendChan never holds more than its capacity, and a goroutine at a
\* send is never held up by a full SendChan whose writer has ended.
C15_EnqueueNeverBlocks ==
  /\ \A t \in Sessions : Len(SendChan[t]) <= SendChanCap
  /\ \A s \in Sessions :
       SendTarget(s) # 0 /\ wpc[SendTarget(s)] = "done"
         => CanSend(SendTarget(s))

\* C16: the step in which a session's writer ends (its WriteMessage failed)
\* ends that writer only: every inbound loop stays where it is, no other
\* writer ends, and the session directory, the lobby registry, the member
\* lists and what has been sent on each SendChan are unchanged.
C16_Step(s) ==
  wpc[s] = "run" /\ wpc'[s] = "done"
    => /\ pc' = pc
       /\ \A t \in Sessions \ {s} : wpc'[t] = wpc[t]
       /\ UNCHANGED <<frame, Players, Lobbies, heap, mu, lmu, nenq, sent>>

C16_WriterEndsAlone == [][\A s \in Sessions : C16_Step(s)]_vars

\* the writer of s ended on its first write, the connection is open, and
\* s has created a lobby whose LobbyCreated is in its SendChan
C16_Witness ==
  \E s \in Sessions :
    /\ wpc[s] = "done"
    /\ written[s] = 0
    /\ ~ConnClosed(s)
    /\ pc[s] = "next"
    /\ frame[s].type = "CreateLobby"
    /\ s \in Players
    /\ \E l \in DOMAIN heap : Members(l)[1] = s
    /\ Len(SendChan[s]) = 1
    /\ SendChan[s][1].type = "LobbyCreated"

\* C17: no LobbyJoined of a lobby is sent to the lobby's creator while the
\* creator's CreateLobby handler has not yet sent LobbyCreated.
C17_Step(s) ==
  pc[s] = "jl204" /\ sent'[s] # sent[s]
    => LET t == BroadcastTarget(lobby[s], idx[s])
       IN  ~ /\ t = heap[lobby[s]].creator
             /\ lobby[t] = lobby[s]
             /\ pc[t] \in {"cl179g", "cl179s"}

C17_CreatedBeforeJoined == [][\A s \in Sessions : C17_Step(s)]_vars

\* C18: the members of a lobby are distinct sessions.
C18_DistinctMembers ==
  \A l \in DOMAIN heap :
    \A i, j \in DOMAIN Members(l) : i # j => Members(l)[i] # Members(l)[j]

\* C19: no goroutine is at a send while it holds server.mu or a Lobby.mu, and
\* under fair scheduling every createLobby and every joinLobby that has been
\* entered returns (unless the runtime aborts the process).
C19_LocksLive ==
  /\ [](\A s \in Sessions :
          SendTarget(s) # 0 => mu # s /\ \A l \in DOMAIN lmu : lmu[l] # s)
  /\ \A s \in Sessions :
       (pc[s] \in {"cl83", "cl84"}) ~> (pc[s] \in {"cl179g", "aborted"})
  /\ \A s \in Sessions :
       (pc[s] \in {"jl91", "jl103", "jl104"})
         ~> (pc[s] \in {"jl198", "jl202", "aborted"})

\* a session holds server.mu while another session's inbound loop is held
\* up at a send on a full SendChan
C19_Witness ==
  \E s \in Sessions :
    /\ mu = s
    /\ \E t \in Sessions \ {s} :
         SendTarget(t) # 0 /\ ~CanSend(SendTarget(t))

\* C20: under fair scheduling, once a session's inbound loop has ended its
\* writer ends as well.
C20_WriterEnds ==
  \A s \in Sessions :
    (pc[s] \in {"closed", "panicked"}) ~> (wpc[s] \in {"done", "aborted"})
====
